---- MODULE Spec2Model ----
(***************************************************************************)
(* A model of the EXL3 quantized linear layer                              *)
(* (src/exllamav3/modules/quant/exl3.py, class LinearEXL3).                *)
(*                                                                         *)
(* A tensor is the record [dtype, shape, device, data]: its element type,  *)
(* its shape, the device it lives on and its contents.  The numerical      *)
(* results of the accelerator kernels (ext.had_r_128, ext.hgemm,           *)
(* ext.exl3_gemm, ext.reconstruct) are outside the model: an output tensor *)
(* carries its shape and element type, and each forward call records the   *)
(* layer parameters it handed to the kernels.                              *)
(*                                                                         *)
(* compare_q's main (src/eval/compare_q.py) is modelled from the point     *)
(* where the model specs are loaded: the choice of the logits file, the    *)
(* ordering of the specs, the label mask and the evaluation loop.          *)
(*                                                                         *)
(* Five specifications share the variables:                                *)
(*   Spec      one layer's life: construction, then any sequence of        *)
(*             swap_cpu, unswap_cpu, get_tensors and forward calls;        *)
(*   SpecFwd   forward calls over a wide range of input shapes;            *)
(*   SpecConc  concurrent forward calls on one layer, interleaved;         *)
(*   SpecBF    unpack_bf over every 16-bit word;                           *)
(*   SpecCmp   one run of compare_q's main.                                *)
(***************************************************************************)
EXTENDS Integers, Sequences, FiniteSets, TLC

VARIABLES
    layer,      \* the LinearEXL3 instance (its fields), NoLayer before/without one
    last,       \* the last completed call: operation, arguments, exception, result
    snap,       \* the layer as it was when swap_cpu last recorded a device
    calls,      \* SpecConc: the frame of each caller's forward call
    bitfield,   \* SpecBF: the argument of unpack_bf
    expanded,   \* SpecBF: the result of unpack_bf
    toggle,     \* the most recent of the swap_cpu / unswap_cpu calls, "None" before any
    main        \* SpecCmp: the frame of compare_q's main

vars == <<layer, last, snap, calls, bitfield, expanded, toggle, main>>

----------------------------------------------------------------------------
(* Values *)

\* Python's None for a tensor argument or field
Absent == [absent |-> TRUE]

\* no instance: construction has not run, or raised
NoLayer == [nolayer |-> TRUE]

T(dtype, shape, device, data) ==
    [dtype |-> dtype, shape |-> shape, device |-> device, data |-> data]

Devices == {"cpu", "cuda:0"}

\* torch.Tensor.cpu() and torch.Tensor.to(device): the device changes, nothing else
ToDevice(t, d) == [t EXCEPT !.device = d]

Cpu(t) == ToDevice(t, "cpu")

RECURSIVE Numel(_)
Numel(shape) == IF shape = <<>> THEN 1 ELSE Head(shape) * Numel(Tail(shape))

Front(s) == SubSeq(s, 1, Len(s) - 1)

\* float32 -> float16, round to nearest even, on integer values up to 4096:
\* integers of magnitude up to 2048 are exact in half precision, those in
\* (2048, 4096] land on the even grid
RoundHalfAbs(m) ==
    IF m <= 2048 THEN m
    ELSE IF m % 2 = 0 THEN m
    ELSE IF ((m - 1) \div 2) % 2 = 0 THEN m - 1 ELSE m + 1

RoundHalf(v) == IF v < 0 THEN 0 - RoundHalfAbs(0 - v) ELSE RoundHalfAbs(v)

\* Tensor.to(torch.half)
ToHalf(t) ==
    [t EXCEPT !.dtype = "half", !.data = [i \in DOMAIN t.data |-> RoundHalf(t.data[i])]]

----------------------------------------------------------------------------
(* unpack_bf *)

\* the 16 masks 1 << torch.arange(16)
WordBits == 16

\* bitfield.view(torch.uint16).to(torch.int): the int16 word read as unsigned
ViewUint16(w) == w % (2 ^ WordBits)

\* (word & (1 << i)) > 0
MaskedMSBFirst(u, i) == (u \div (2 ^ (WordBits - 1 - i))) % 2 = 1

Masked(u, i) == (u \div (2 ^ i)) % 2 = 1

unpack_bf(transformers_fix, bf) ==
    LET device == bf.device
        b1 == IF transformers_fix THEN Cpu(bf) ELSE bf
        words == [j \in DOMAIN b1.data |-> ViewUint16(b1.data[j])]
        n == Len(words)
        \* unsqueeze(-1) & masks, flatten: element 16*j + i is bit i of word j
        flat == [k \in 1..(WordBits * n) |->
                    Masked(words[((k - 1) \div WordBits) + 1], (k - 1) % WordBits)]
        signs == [k \in DOMAIN flat |-> IF flat[k] THEN -1 ELSE 1]
    IN  ToDevice(T("half", <<WordBits * n>>, b1.device, signs), device)

----------------------------------------------------------------------------
(* __init__ *)

Raise(msg) == [raised |-> msg, self |-> NoLayer]

\* A 32-bit pattern is the pair <<high 16 bits, low 16 bits>>, each in 0..65535,
\* whether it is read as int32 or as uint32.
\* mcg.view(torch.uint32).item(): the single element's pattern, read as unsigned
ViewUint32Item(t) == t.data[1]

\* the Python integer 0 as a 32-bit pattern
Zero32 == <<0, 0>>

\* lines 30-39: the message of the first assertion that fails, "None" if none does
init_asserts_no_rank_check(a) ==
    IF a.scale # Absent THEN "scale is no longer used"
    ELSE IF a.su = Absent /\ a.suh = Absent
        THEN "either su (packed) or suh (unpacked) is required"
    ELSE IF a.sv = Absent /\ a.svh = Absent
        THEN "either sv (packed) or svh (unpacked) is required"
    ELSE IF a.trellis = Absent THEN "trellis is required"
    ELSE IF a.su # Absent /\ a.su.dtype # "int16" THEN "su is wrong datatype"
    ELSE IF a.sv # Absent /\ a.sv.dtype # "int16" THEN "sv is wrong datatype"
    ELSE IF a.suh # Absent /\ a.suh.dtype # "half" THEN "suh is wrong datatype"
    ELSE IF a.svh # Absent /\ a.svh.dtype # "half" THEN "svh is wrong datatype"
    ELSE IF a.trellis.dtype # "int16" THEN "trellis is wrong datatype"
    ELSE "None"

init_asserts(a) ==
    IF a.scale # Absent THEN "scale is no longer used"
    ELSE IF a.su = Absent /\ a.suh = Absent
        THEN "either su (packed) or suh (unpacked) is required"
    ELSE IF a.sv = Absent /\ a.svh = Absent
        THEN "either sv (packed) or svh (unpacked) is required"
    ELSE IF a.trellis = Absent THEN "trellis is required"
    ELSE IF a.su # Absent /\ a.su.dtype # "int16" THEN "su is wrong datatype"
    ELSE IF a.sv # Absent /\ a.sv.dtype # "int16" THEN "sv is wrong datatype"
    ELSE IF a.suh # Absent /\ a.suh.dtype # "half" THEN "suh is wrong datatype"
    ELSE IF a.svh # Absent /\ a.svh.dtype # "half" THEN "svh is wrong datatype"
    ELSE IF a.trellis.dtype # "int16" THEN "trellis is wrong datatype"
    ELSE IF Len(a.trellis.shape) # 3 THEN "trellis must have dim = 3"
    ELSE "None"

\* line 41: a single-precision bias is stored in half precision
init_bias(a) ==
    IF a.bias # Absent /\ a.bias.dtype = "float" THEN ToHalf(a.bias) ELSE a.bias

\* lines 46-50: the sign vectors and the trellis
init_signs_keep_packed(a) ==
    [su |-> a.su, sv |-> a.sv,
     suh |-> IF a.suh # Absent THEN a.suh ELSE unpack_bf(a.transformers_fix, a.su),
     svh |-> IF a.svh # Absent THEN a.svh ELSE unpack_bf(a.transformers_fix, a.sv),
     trellis |-> a.trellis]

init_signs(a) ==
    [su |-> Absent, sv |-> Absent,
     suh |-> IF a.suh # Absent THEN a.suh ELSE unpack_bf(a.transformers_fix, a.su),
     svh |-> IF a.svh # Absent THEN a.svh ELSE unpack_bf(a.transformers_fix, a.sv),
     trellis |-> a.trellis]

\* lines 43, 51-63: the other fields
init_fields(a) ==
    [transformers_fix |-> a.transformers_fix,
     K |-> a.trellis.shape[Len(a.trellis.shape)] \div 16,
     in_features |-> a.in_features,
     out_features |-> a.out_features,
     bias |-> init_bias(a),
     swap_device |-> "None",
     out_dtype |-> a.out_dtype,
     mcg |-> a.mcg,
     mcg_mult |-> IF a.mcg # Absent THEN ViewUint32Item(a.mcg) ELSE Zero32,
     mul1 |-> a.mul1,
     mul1_mult |-> IF a.mul1 # Absent THEN ViewUint32Item(a.mul1) ELSE Zero32]

\* LinearEXL3(...): the exception raised ("None" when none) and the instance
LinearEXL3_init(a) ==
    LET msg == init_asserts(a)
    IN  IF msg # "None" THEN Raise(msg)
        ELSE [raised |-> "None", self |-> init_signs(a) @@ init_fields(a)]

----------------------------------------------------------------------------
(* get_tensors *)

\* the (subkey, tensor) pairs of the comprehension, in its order
TensorFields(self) ==
    << <<"su", self.su>>, <<"sv", self.sv>>, <<"suh", self.suh>>, <<"svh", self.svh>>,
       <<"trellis", self.trellis>>, <<"bias", self.bias>>, <<"mcg", self.mcg>>,
       <<"mul1", self.mul1>> >>

\* Tensor.contiguous(): same element type, shape, device and contents
Contiguous(t) == t

\* the dict {f"{key}.{subkey}": tensor.contiguous()} as a set of [key, tensor] items
get_tensors(self, key) ==
    LET fs == TensorFields(self)
    IN  {[key |-> key \o "." \o fs[i][1], tensor |-> Contiguous(fs[i][2])] :
            i \in {j \in DOMAIN fs : fs[j][2] # Absent}}

----------------------------------------------------------------------------
(* swap_cpu, unswap_cpu *)

\* if t is not None: t = t.to(d)
MoveIfPresent(t, d) == IF t # Absent THEN ToDevice(t, d) ELSE t

swap_cpu_no_guard(self) ==
    [self EXCEPT !.swap_device = self.trellis.device,
                 !.su = MoveIfPresent(self.su, "cpu"),
                 !.sv = MoveIfPresent(self.sv, "cpu"),
                 !.suh = MoveIfPresent(self.suh, "cpu"),
                 !.svh = MoveIfPresent(self.svh, "cpu"),
                 !.trellis = MoveIfPresent(self.trellis, "cpu"),
                 !.bias = MoveIfPresent(self.bias, "cpu")]

swap_cpu(self) ==
    IF self.swap_device # "None" THEN self
    ELSE [self EXCEPT !.swap_device = self.trellis.device,
                      !.su = MoveIfPresent(self.su, "cpu"),
                      !.sv = MoveIfPresent(self.sv, "cpu"),
                      !.suh = MoveIfPresent(self.suh, "cpu"),
                      !.svh = MoveIfPresent(self.svh, "cpu"),
                      !.trellis = MoveIfPresent(self.trellis, "cpu"),
                      !.bias = MoveIfPresent(self.bias, "cpu")]

unswap_cpu_bias_left(self) ==
    IF self.swap_device = "None" THEN self
    ELSE [self EXCEPT !.su = MoveIfPresent(self.su, self.swap_device),
                      !.sv = MoveIfPresent(self.sv, self.swap_device),
                      !.suh = MoveIfPresent(self.suh, self.swap_device),
                      !.svh = MoveIfPresent(self.svh, self.swap_device),
                      !.trellis = MoveIfPresent(self.trellis, self.swap_device),
                      !.swap_device = "None"]

unswap_cpu_marker_kept(self) ==
    IF self.swap_device = "None" THEN self
    ELSE [self EXCEPT !.su = MoveIfPresent(self.su, self.swap_device),
                      !.sv = MoveIfPresent(self.sv, self.swap_device),
                      !.suh = MoveIfPresent(self.suh, self.swap_device),
                      !.svh = MoveIfPresent(self.svh, self.swap_device),
                      !.trellis = MoveIfPresent(self.trellis, self.swap_device),
                      !.bias = MoveIfPresent(self.bias, self.swap_device)]

unswap_cpu(self) ==
    IF self.swap_device = "None" THEN self
    ELSE [self EXCEPT !.su = MoveIfPresent(self.su, self.swap_device),
                      !.sv = MoveIfPresent(self.sv, self.swap_device),
                      !.suh = MoveIfPresent(self.suh, self.swap_device),
                      !.svh = MoveIfPresent(self.svh, self.swap_device),
                      !.trellis = MoveIfPresent(self.trellis, self.swap_device),
                      !.bias = MoveIfPresent(self.bias, self.swap_device),
                      !.swap_device = "None"]

----------------------------------------------------------------------------
(* forward *)

\* the batch size above which forward materializes the weight (x.shape[0] > 32)
ReconstructThreshold == 32

\* a or b, on torch.dtype objects (always truthy) and None
OrElse(a, b) == IF a # "None" THEN a ELSE b

\* bool(v) of a params value
Truthy(v) == v = "True"

\* Tensor.view(-1, cols) on a contiguous tensor of shape s: the new shape, or
\* <<>> when torch raises (cols is 0, or the number of elements is no multiple
\* of cols); a tensor of no elements becomes one of no rows
ViewRows(s, cols) ==
    LET n == Numel(s)
    IN  IF cols = 0 \/ n % cols # 0 THEN <<>> ELSE <<n \div cols, cols>>

\* Tensor.view(rows, cols) of a tensor of shape s: allowed iff the sizes agree
ViewOk(s, rows, cols) == Numel(s) = rows * cols

\* the frame of a forward call that has not run yet
NewFrame(x, params, out_dtype) ==
    [pc |-> "begin", x |-> x, params |-> params, out_dtype |-> out_dtype,
     out_shape |-> <<>>, x_shape |-> <<>>, torch_mode |-> FALSE,
     ret_dtype |-> "None", y |-> Absent, seen |-> [none |-> TRUE], raised |-> "None"]

Raised(self, f, msg) == [self |-> self, f |-> [f EXCEPT !.pc = "raised", !.raised = msg]]

\* line 92: params.get("reconstruct", x.shape[0] > 32)
pick_torch_mode_inclusive(params, rows) ==
    IF params.reconstruct # "missing" THEN Truthy(params.reconstruct)
    ELSE rows >= ReconstructThreshold

pick_torch_mode(params, rows) ==
    IF params.reconstruct # "missing" THEN Truthy(params.reconstruct)
    ELSE rows > ReconstructThreshold

\* line 93: out_dtype or self.out_dtype or torch.half
pick_ret_dtype_layer_first(out_dtype, self_out_dtype) ==
    OrElse(self_out_dtype, OrElse(out_dtype, "half"))

pick_ret_dtype(out_dtype, self_out_dtype) ==
    OrElse(out_dtype, OrElse(self_out_dtype, "half"))

\* lines 89-93: out_shape, the flattening, the choice of path and of output type
fwd_begin(self, f) ==
    LET out_shape == Front(f.x.shape) \o <<self.out_features>>
        x_shape == ViewRows(f.x.shape, self.in_features)
    IN  IF x_shape = <<>> THEN Raised(self, f, "RuntimeError: shape is invalid for input")
        ELSE [self |-> self,
              f |-> [f EXCEPT
                 !.pc = "kernel",
                 !.out_shape = out_shape,
                 !.x_shape = x_shape,
                 !.torch_mode = pick_torch_mode(f.params, x_shape[1]),
                 !.ret_dtype = pick_ret_dtype(f.out_dtype, self.out_dtype)]]

\* The kernels of exllamav3_ext write into the output tensor they are given: its
\* shape and element type stay as allocated.  They are taken to complete.
ext_hgemm(xh, w, y_) == y_

ext_exl3_gemm(x, trellis, y, suh, svh, mcg_mult, mul1_mult) == y

\* get_inner_weight_tensor (lines 142-145): the dense weight the trellis decodes to
get_inner_weight_tensor(self) ==
    T("half", <<self.in_features, self.out_features>>, self.trellis.device,
      [trellis |-> self.trellis.data, K |-> self.K,
       mcg_mult |-> self.mcg_mult, mul1_mult |-> self.mul1_mult])

\* lines 95-106: the output is allocated and one of the two paths fills it
fwd_kernel(self, f) ==
    LET y == T(f.ret_dtype, f.out_shape, "x.device", "y")
    IN  IF f.torch_mode
        THEN IF ~ViewOk(f.out_shape, f.x_shape[1], self.out_features)
             THEN Raised(self, f, "RuntimeError: shape is invalid for input")
             ELSE [self |-> self,
                   f |-> [f EXCEPT
                      !.pc = "bias",
                      !.y = [ext_hgemm(f.x_shape, get_inner_weight_tensor(self),
                                       [y EXCEPT !.shape = <<f.x_shape[1], self.out_features>>])
                             EXCEPT !.shape = f.out_shape],
                      !.seen = [suh |-> self.suh, svh |-> self.svh,
                                trellis |-> self.trellis, K |-> self.K,
                                in_features |-> self.in_features,
                                out_features |-> self.out_features,
                                mcg_mult |-> self.mcg_mult,
                                mul1_mult |-> self.mul1_mult]]]
        ELSE [self |-> self,
              f |-> [f EXCEPT
                 !.pc = "bias",
                 !.y = ext_exl3_gemm(f.x_shape, self.trellis, y, self.suh, self.svh,
                                     self.mcg_mult, self.mul1_mult),
                 !.seen = [suh |-> self.suh, svh |-> self.svh,
                           trellis |-> self.trellis,
                           mcg_mult |-> self.mcg_mult,
                           mul1_mult |-> self.mul1_mult]]]

\* y += bias: in place, y keeps its element type and shape
InplaceAdd(y, b) == y

\* lines 108-111: the bias, and the return
fwd_finish_bias_accumulates(self, f) ==
    [self |-> IF self.bias # Absent
              THEN [self EXCEPT !.bias.data = [i \in DOMAIN self.bias.data |->
                                                  self.bias.data[i] + 1]]
              ELSE self,
     f |-> [f EXCEPT !.pc = "returned",
                     !.seen = f.seen @@ [bias |-> self.bias]]]

fwd_finish(self, f) ==
    [self |-> self,
     f |-> [f EXCEPT !.pc = "returned",
                     !.y = IF self.bias # Absent THEN InplaceAdd(f.y, self.bias) ELSE f.y,
                     !.seen = f.seen @@ [bias |-> self.bias]]]

\* one step of a call, by its position
fwd_step(self, f) ==
    CASE f.pc = "begin" -> fwd_begin(self, f)
      [] f.pc = "kernel" -> fwd_kernel(self, f)
      [] f.pc = "bias" -> fwd_finish(self, f)
      [] OTHER -> [self |-> self, f |-> f]

Running(f) == f.pc \in {"begin", "kernel", "bias"}

\* forward(x, params, out_dtype) run to its end: the instance and the final frame
forward(self, x, params, out_dtype) ==
    LET r1 == fwd_step(self, NewFrame(x, params, out_dtype))
        r2 == fwd_step(r1.self, r1.f)
        r3 == fwd_step(r2.self, r2.f)
    IN  r3

----------------------------------------------------------------------------
(* compare_q: main, test_ppl *)

\* A label or a mask is a string, modelled as the sequence of its characters.
\* str.upper(), character by character
UpperChar(c) ==
    CASE c = "a" -> "A"
      [] c = "b" -> "B"
      [] OTHER -> c

upper(s) == [i \in DOMAIN s |-> UpperChar(s[i])]

\* m in s, on strings: m occurs in s as a contiguous run (the empty string always)
StrIn(m, s) ==
    \E i \in 1..(Len(s) - Len(m) + 1) : SubSeq(s, i, i + Len(m) - 1) = m

\* the position of the first ";" of s, 0 if there is none
FirstSep(s) ==
    IF \E i \in DOMAIN s : s[i] = ";"
    THEN CHOOSE i \in DOMAIN s : s[i] = ";" /\ \A j \in 1..(i - 1) : s[j] # ";"
    ELSE 0

\* s.split(";")
RECURSIVE split(_)
split(s) ==
    LET i == FirstSep(s)
    IN  IF i = 0 THEN <<s>>
        ELSE <<SubSeq(s, 1, i - 1)>> \o split(SubSeq(s, i + 1, Len(s)))

\* bool(v) of a command-line string option: None and "" are false
Given(v) == v # "None" /\ v # ""

\* "out_logits" in spec
DeclaresLogits(spec) == spec.out_logits # "missing"

\* dict_hash(test_data_spec), the same for every model of a run
DataHash == "sha256"

\* os.path.join(logits_dir, dict_hash(test_data_spec) + ".safetensors")
LogitsPath(logits_dir) == logits_dir \o "/" \o DataHash \o ".safetensors"

\* line 361: the reference spec in front, then the specs before it, then
\* those after it (positions count from 1 here, from 0 in the source)
move_to_front_rotating(models_spec, logits_idx) ==
    <<models_spec[logits_idx]>>
    \o SubSeq(models_spec, logits_idx + 1, Len(models_spec))
    \o SubSeq(models_spec, 1, logits_idx - 1)

move_to_front(models_spec, logits_idx) ==
    <<models_spec[logits_idx]>>
    \o SubSeq(models_spec, 1, logits_idx - 1)
    \o SubSeq(models_spec, logits_idx + 1, Len(models_spec))

\* lines 349-361: the logits file and the order of the specs.  The loop keeps
\* the file and the position of the last spec that declares out_logits.
select_logits(args, models_spec) ==
    IF Given(args.logits_file)
    THEN [logits_file |-> args.logits_file, models_spec |-> models_spec]
    ELSE LET declaring == {i \in DOMAIN models_spec : DeclaresLogits(models_spec[i])}
         IN  IF declaring = {}
             THEN [logits_file |-> "None", models_spec |-> models_spec]
             ELSE LET logits_idx == CHOOSE i \in declaring : \A j \in declaring : j <= i
                  IN  [logits_file |-> LogitsPath(models_spec[logits_idx].out_logits),
                       models_spec |-> move_to_front(models_spec, logits_idx)]

\* any(m.upper() in spec["label"].upper() for m in masks)
label_matches(masks, spec) ==
    \E k \in DOMAIN masks : StrIn(upper(masks[k]), upper(spec.label))

\* lines 363-369: args.mask is <<>> for None, <<string>> for a string
apply_mask(args, models_spec) ==
    IF args.mask = <<>> \/ args.mask[1] = <<>> THEN models_spec
    ELSE LET masks == split(args.mask[1])
         IN  SelectSeq(models_spec, LAMBDA spec : label_matches(masks, spec))

\* test_ppl, lines 145-154 and 205-206: what the evaluation of one model does
\* with the logits file when its body runs (the result cache that wraps test_ppl
\* lies outside this module and is not modelled)
test_ppl(spec, logits_file) ==
    [label |-> spec.label,
     spec |-> spec,
     logits_file |-> logits_file,
     logits |-> IF ~Given(logits_file) THEN "unused"
                ELSE IF DeclaresLogits(spec) THEN "saved"
                ELSE "loaded"]

\* main once the model specs are loaded (lines 333-347)
NewMain(args, models_spec) ==
    [pc |-> "select", args |-> args, loaded |-> models_spec,
     models_spec |-> models_spec, ordered |-> models_spec,
     logits_file |-> "None", results |-> <<>>]

\* lines 349-361
main_select(m) ==
    LET r == select_logits(m.args, m.models_spec)
    IN  [m EXCEPT !.pc = "mask", !.logits_file = r.logits_file,
                  !.models_spec = r.models_spec, !.ordered = r.models_spec]

\* lines 363-369
main_mask(m) ==
    [m EXCEPT !.pc = "loop", !.models_spec = apply_mask(m.args, m.models_spec)]

\* lines 376-379: one turn of the loop over models_spec
main_eval(m) ==
    [m EXCEPT !.results =
        Append(m.results, test_ppl(m.models_spec[Len(m.results) + 1], m.logits_file))]

----------------------------------------------------------------------------
(* Arguments *)

\* the largest rank of an input of forward
MaxRank == 3

\* the largest number of words of a bitfield given to unpack_bf
MaxWords == 2

\* the number of concurrent callers of forward
NumCallers == 2

Callers == 1..NumCallers

Dtypes == {"None", "half", "float"}

\* packed signs: n 16-bit words
PackedData(n) == [j \in 1..n |-> IF j % 2 = 1 THEN 5 ELSE -2]

\* unpacked signs: n values of +1/-1
UnpackedData(n) == [k \in 1..n |-> IF k % 3 = 0 THEN -1 ELSE 1]

\* an argument that may be missing, right, or of the wrong element type
PackedOpts(d, n) ==
    {Absent, T("int16", <<n>>, d, PackedData(n)), T("half", <<n>>, d, PackedData(n))}

UnpackedOpts(d, n) ==
    {Absent, T("half", <<n>>, d, UnpackedData(n)), T("float", <<n>>, d, UnpackedData(n))}

Codes(shape) == [k \in 1..Numel(shape) |-> ((k * 7919) % 65536) - 32768]

TrellisLastDims == {8, 16, 32}

OkTrellis(d, in, out) ==
    {T("int16", <<in \div 16, out \div 16, n>>, d, Codes(<<in \div 16, out \div 16, n>>)) :
        n \in TrellisLastDims}

TrellisOpts(d, in, out) ==
    {Absent} \cup OkTrellis(d, in, out)
    \cup {T("half", <<in \div 16, out \div 16, 16>>, d, Codes(<<in \div 16, out \div 16, 16>>)),
          T("int16", <<in \div 16, 16>>, d, Codes(<<in \div 16, 16>>)),
          T("int16", <<1, in \div 16, out \div 16, 16>>, d,
            Codes(<<1, in \div 16, out \div 16, 16>>))}

\* a bias in single precision (values half precision cannot hold), in half
\* precision, or in bfloat16
BiasOpts(d, out) ==
    {Absent,
     T("float", <<out>>, d, [k \in 1..out |-> 2040 + k]),
     T("half", <<out>>, d, [k \in 1..out |-> 2 * k]),
     T("bfloat16", <<out>>, d, [k \in 1..out |-> k])}

\* the scramble constants 0xCBAC1FED and 0x83DCD12D as one-element int32 tensors
McgOpts(d) == {Absent, T("int32", <<>>, d, << <<52140, 8173>> >>)}

Mul1Opts(d) == {Absent, T("int32", <<>>, d, << <<33756, 53549>> >>)}

ScaleOpts(d) == {Absent, T("half", <<>>, d, <<1>>)}

\* every combination of arguments with the trellis on dT and the rest on dO
ArgsOn(dT, dO, in, out) ==
    [scale : ScaleOpts(dO),
     su : PackedOpts(dO, in \div 16), sv : PackedOpts(dO, out \div 16),
     suh : UnpackedOpts(dO, in), svh : UnpackedOpts(dO, out),
     trellis : TrellisOpts(dT, in, out),
     bias : BiasOpts(dO, out),
     out_dtype : {"None", "float"},
     mcg : McgOpts(dT), mul1 : Mul1Opts(dT),
     transformers_fix : BOOLEAN,
     in_features : {in}, out_features : {out}]

\* the arguments other than those the constructor validates are the plainest
PlainPayload(a) ==
    /\ a.bias = Absent /\ a.out_dtype = "None" /\ a.mcg = Absent /\ a.mul1 = Absent
    /\ a.transformers_fix = FALSE

\* Spec: every combination of the validated arguments with the plainest payload,
\* and every payload with every accepted combination
CtorArgs(in, out) ==
    {a \in UNION {ArgsOn(dT, dO, in, out) : dT \in Devices, dO \in Devices} :
        PlainPayload(a) \/ init_asserts(a) = "None"}

\* SpecFwd, SpecConc: packed signs, a trellis with K = 1, everything on one device
PlainArgs(in, out, bias, out_dtype) ==
    [scale |-> Absent,
     su |-> T("int16", <<in \div 16>>, "cuda:0", PackedData(in \div 16)),
     sv |-> T("int16", <<out \div 16>>, "cuda:0", PackedData(out \div 16)),
     suh |-> Absent, svh |-> Absent,
     trellis |-> T("int16", <<in \div 16, out \div 16, 16>>, "cuda:0",
                   Codes(<<in \div 16, out \div 16, 16>>)),
     bias |-> bias, out_dtype |-> out_dtype,
     mcg |-> Absent, mul1 |-> Absent, transformers_fix |-> FALSE,
     in_features |-> in, out_features |-> out]

FwdCtorArgs ==
    {PlainArgs(16, out, bias, odt) :
        out \in {16, 32}, bias \in BiasOpts("cuda:0", 16), odt \in Dtypes}

ConcCtorArgs ==
    {PlainArgs(16, 16, bias, "None") :
        bias \in {Absent, T("half", <<16>>, "cuda:0", [k \in 1..16 |-> 2 * k])}}

\* the values of params.get("reconstruct"): the key missing, or one of these
ReconstructOpts == {"missing", "True", "False", "None"}

Dims == {0, 1, 2, 16, 33}

Shapes == UNION {[1..r -> Dims] : r \in 1..MaxRank}

FwdArgs ==
    [x : [shape : Shapes], params : [reconstruct : ReconstructOpts], out_dtype : Dtypes]

\* Spec and SpecConc: a small batch and a large one
FewArgs ==
    [x : [shape : {<<2, 16>>, <<33, 16>>}], params : [reconstruct : {"missing"}],
     out_dtype : {"None", "float"}]

\* SpecBF: every single word, and every sequence of sample words
SampleWords == {0, 5, -2, -32768}

BFArgs(maxWords) ==
    [transformers_fix : BOOLEAN,
     bf : {T("int16", <<1>>, d, <<w>>) : d \in Devices, w \in (-32768)..32767}
          \cup {T("int16", <<Len(ws)>>, d, ws) :
                  d \in Devices, ws \in UNION {[1..m -> SampleWords] : m \in 2..maxWords}}]

\* SpecCmp: the largest number of model specs loaded
MaxModels == 3

\* SpecCmp: the largest length of the --mask string
MaxMaskLen == 2

Labels == {<<"a", "b">>, <<"B">>}

\* the directory a spec with this label names under "out_logits"
LogitsDir(label) == IF label = <<"B">> THEN "ref_B" ELSE "ref_ab"

\* a model spec: its label, and its out_logits directory or "missing"
ModelSpecs ==
    {[label |-> l, out_logits |-> d] : l \in Labels, d \in {"missing"}}
    \cup {[label |-> l, out_logits |-> LogitsDir(l)] : l \in Labels}

MaskChars == {"a", "B", ";"}

\* --mask: not given, or a string
MaskOpts(maxLen) ==
    {<<>>} \cup {<<str>> : str \in UNION {[1..n -> MaskChars] : n \in 0..maxLen}}

\* --logits_file: not given, empty, or a path
LogitsFileOpts == {"None", "", "cli.safetensors"}

CmpArgs(maxLen) == [logits_file : LogitsFileOpts, mask : MaskOpts(maxLen)]

LoadedSpecs(maxModels) == UNION {[1..n -> ModelSpecs] : n \in 0..maxModels}

----------------------------------------------------------------------------
(* Actions *)

Call(op, args, raised, ret, before) ==
    [op |-> op, args |-> args, raised |-> raised, ret |-> ret, before |-> before]

Idle == [pc |-> "idle"]

\* compare_q's main is not running
NoRun == [norun |-> TRUE]

Init ==
    /\ layer = NoLayer
    /\ last = Call("new", <<>>, "None", Absent, NoLayer)
    /\ snap = NoLayer
    /\ calls = [c \in Callers |-> Idle]
    /\ bitfield = Absent
    /\ expanded = Absent
    /\ toggle = "None"
    /\ main = NoRun

\* LinearEXL3(**a), once, for some a of Args
Construct(Args) ==
    /\ last.op = "new"
    /\ \E a \in Args :
          LET r == LinearEXL3_init(a)
          IN  /\ layer' = r.self
              /\ last' = Call("init", a, r.raised, Absent, NoLayer)
    /\ toggle' = "None"
    /\ UNCHANGED <<snap, calls, bitfield, expanded, main>>

\* layer.swap_cpu()
SwapCpu ==
    /\ layer # NoLayer
    /\ layer' = swap_cpu(layer)
    /\ last' = Call("swap_cpu", <<>>, "None", Absent, layer)
    /\ snap' = IF layer.swap_device = "None" THEN layer ELSE snap
    /\ toggle' = "swap_cpu"
    /\ UNCHANGED <<calls, bitfield, expanded, main>>

\* layer.unswap_cpu()
UnswapCpu ==
    /\ layer # NoLayer
    /\ layer' = unswap_cpu(layer)
    /\ last' = Call("unswap_cpu", <<>>, "None", Absent, layer)
    /\ toggle' = "unswap_cpu"
    /\ UNCHANGED <<snap, calls, bitfield, expanded, main>>

Keys == {"model.layers.0.mlp.up"}

\* layer.get_tensors(key)
GetTensors ==
    /\ layer # NoLayer
    /\ \E key \in Keys :
          last' = Call("get_tensors", key, "None", get_tensors(layer, key), layer)
    /\ UNCHANGED <<layer, snap, calls, bitfield, expanded, toggle, main>>

\* layer.forward(x, params, out_dtype), start to end, for some arguments of Args
Forward(Args) ==
    /\ layer # NoLayer
    /\ \E a \in Args :
          LET r == forward(layer, a.x, a.params, a.out_dtype)
          IN  /\ layer' = r.self
              /\ last' = Call("forward", a, r.f.raised, r.f, layer)
    /\ UNCHANGED <<snap, calls, bitfield, expanded, toggle, main>>

\* the first forward call on a fresh layer, for some arguments of Args
FirstForward(Args) ==
    /\ layer # NoLayer
    /\ last.op = "init"
    /\ \E a \in Args :
          LET r == forward(layer, a.x, a.params, a.out_dtype)
          IN  /\ layer' = r.self
              /\ last' = Call("forward", a, r.f.raised, r.f, layer)
    /\ UNCHANGED <<snap, calls, bitfield, expanded, toggle, main>>

\* a caller enters forward
Enter(c) ==
    /\ layer # NoLayer
    /\ ~Running(calls[c])
    /\ \E a \in FewArgs :
          calls' = [calls EXCEPT ![c] = NewFrame(a.x, a.params, a.out_dtype)]
    /\ UNCHANGED <<layer, last, snap, bitfield, expanded, toggle, main>>

\* a caller runs the next part of its forward call
Step(c) ==
    /\ layer # NoLayer
    /\ Running(calls[c])
    /\ LET r == fwd_step(layer, calls[c])
       IN  /\ layer' = r.self
           /\ calls' = [calls EXCEPT ![c] = r.f]
    /\ UNCHANGED <<last, snap, bitfield, expanded, toggle, main>>

\* main: the logits file is chosen and the specs are ordered
MainSelect ==
    /\ main # NoRun
    /\ main.pc = "select"
    /\ main' = main_select(main)
    /\ UNCHANGED <<layer, last, snap, calls, bitfield, expanded, toggle>>

\* main: the label mask is applied
MainMask ==
    /\ main # NoRun
    /\ main.pc = "mask"
    /\ main' = main_mask(main)
    /\ UNCHANGED <<layer, last, snap, calls, bitfield, expanded, toggle>>

\* main: the next model is evaluated
MainEval ==
    /\ main # NoRun
    /\ main.pc = "loop"
    /\ Len(main.results) < Len(main.models_spec)
    /\ main' = main_eval(main)
    /\ UNCHANGED <<layer, last, snap, calls, bitfield, expanded, toggle>>

\* main: the loop is over, the results are printed
MainDone ==
    /\ main # NoRun
    /\ main.pc = "loop"
    /\ Len(main.results) = Len(main.models_spec)
    /\ main' = [main EXCEPT !.pc = "done"]
    /\ UNCHANGED <<layer, last, snap, calls, bitfield, expanded, toggle>>

\* unpack_bf(bitfield)
Unpack ==
    /\ bitfield # Absent
    /\ expanded = Absent
    /\ expanded' = unpack_bf(bitfield.transformers_fix, bitfield.bf)
    /\ UNCHANGED <<layer, last, snap, calls, bitfield, toggle, main>>

----------------------------------------------------------------------------
(* Specifications *)

Next ==
    \/ Construct(CtorArgs(16, 16))
    \/ SwapCpu
    \/ UnswapCpu
    \/ GetTensors
    \/ Forward(FewArgs)

Spec == Init /\ [][Next]_vars

NextFwd ==
    \/ Construct(FwdCtorArgs)
    \/ FirstForward(FwdArgs)

SpecFwd == Init /\ [][NextFwd]_vars

NextConc ==
    \/ Construct(ConcCtorArgs)
    \/ \E c \in Callers : Enter(c)
    \/ \E c \in Callers : Step(c)

SpecConc == Init /\ [][NextConc]_vars

InitBF ==
    /\ layer = NoLayer
    /\ last = Call("new", <<>>, "None", Absent, NoLayer)
    /\ snap = NoLayer
    /\ calls = [c \in Callers |-> Idle]
    /\ bitfield \in BFArgs(MaxWords)
    /\ expanded = Absent
    /\ toggle = "None"
    /\ main = NoRun

NextBF == Unpack

SpecBF == InitBF /\ [][NextBF]_vars

InitCmp ==
    /\ layer = NoLayer
    /\ last = Call("new", <<>>, "None", Absent, NoLayer)
    /\ snap = NoLayer
    /\ calls = [c \in Callers |-> Idle]
    /\ bitfield = Absent
    /\ expanded = Absent
    /\ toggle = "None"
    /\ main \in {NewMain(args, models_spec) :
                    args \in CmpArgs(MaxMaskLen), models_spec \in LoadedSpecs(MaxModels)}

NextCmp ==
    \/ MainSelect
    \/ MainMask
    \/ MainEval
    \/ MainDone

SpecCmp == InitCmp /\ [][NextCmp]_vars

----------------------------------------------------------------------------
(* Properties *)

LastDim(shape) == shape[Len(shape)]

\* the product of all dimensions but the last
LeadingProduct(shape) == Numel(Front(shape))

\* the path a forward call went down, read off what it handed to the kernels:
\* only the reconstruct path decodes the trellis with K
TookReconstruct(f) == f.pc \in {"bias", "returned"} /\ "K" \in DOMAIN f.seen

TookFused(f) == f.pc \in {"bias", "returned"} /\ ~("K" \in DOMAIN f.seen)

\* C1: a forward call on an input whose last dimension is in_features takes the reconstruct path exactly when params["reconstruct"] is given and
\* true, or is not given and N, the product of the other dimensions, exceeds 32;
\* otherwise it takes the fused path.
C1_PathChoice ==
    (/\ last.op = "forward"
     /\ LastDim(last.args.x.shape) = layer.in_features)
    => LET N == LeadingProduct(last.args.x.shape)
           given == last.args.params.reconstruct
           reconstruct == \/ given = "True"
                          \/ given = "missing" /\ N > 32
       IN  /\ last.ret.x_shape = <<N, layer.in_features>>
           /\ reconstruct => TookReconstruct(last.ret)
           /\ ~reconstruct => TookFused(last.ret)

C1_Witness ==
    /\ last.op = "forward"
    /\ last.args.x.shape = <<2, 16, 16>>
    /\ last.args.params.reconstruct = "missing"
    /\ TookFused(last.ret)

\* C2: a forward call on an input whose last dimension differs from
\* in_features raises, on both paths, without having reshaped the input and
\* without returning an output.
C2_ShapeContract ==
    (/\ last.op = "forward"
     /\ LastDim(last.args.x.shape) # layer.in_features)
    => /\ last.raised # "None"
       /\ last.ret.x_shape = <<>>
       /\ last.ret.pc # "returned"

\* what the claim lists: the arguments with which construction must fail
RejectedArgs(a) ==
    \/ a.trellis = Absent
    \/ a.su = Absent /\ a.suh = Absent
    \/ a.sv = Absent /\ a.svh = Absent
    \/ a.su # Absent /\ a.su.dtype # "int16"
    \/ a.sv # Absent /\ a.sv.dtype # "int16"
    \/ a.suh # Absent /\ a.suh.dtype # "half"
    \/ a.svh # Absent /\ a.svh.dtype # "half"
    \/ a.trellis # Absent /\ a.trellis.dtype # "int16"
    \/ a.trellis # Absent /\ Len(a.trellis.shape) # 3

\* C3: construction raises, and yields no layer, whenever the trellis is
\* missing, an axis has neither sign form, a supplied su/sv is not int16, a
\* supplied suh/svh is not half, or the trellis is not int16 or not of rank 3.
C3_ConstructionRejects ==
    (last.op = "init" /\ RejectedArgs(last.args))
    => (layer = NoLayer /\ last.raised # "None")

C3_Witness ==
    /\ last.op = "init"
    /\ last.args.trellis # Absent
    /\ last.args.trellis.dtype = "int16"
    /\ Len(last.args.trellis.shape) = 2
    /\ last.args.su # Absent /\ last.args.su.dtype = "int16"
    /\ last.args.svh # Absent /\ last.args.svh.dtype = "half"
    /\ last.args.suh = Absent /\ last.args.sv = Absent /\ last.args.scale = Absent
    /\ layer = NoLayer
    /\ last.raised = "trellis must have dim = 3"

OwnedFields == {"su", "sv", "suh", "svh", "trellis", "bias"}

\* the element type, shape and contents of a tensor, or its absence
Contents(t) == IF t = Absent THEN Absent ELSE [dtype |-> t.dtype, shape |-> t.shape, data |-> t.data]

\* C4: after swap_cpu() and then unswap_cpu(), every owned tensor has the
\* contents it had before the swap and is on the device that swap_cpu recorded,
\* and the marker is cleared.
C4_SwapUnswapIdentity ==
    (last.op = "unswap_cpu" /\ last.before.swap_device # "None")
    => /\ \A k \in OwnedFields : Contents(layer[k]) = Contents(snap[k])
       /\ \A k \in OwnedFields :
             layer[k] # Absent =>
                /\ layer[k].device = last.before.swap_device
                /\ layer[k].device = snap.trellis.device
       /\ layer.swap_device = "None"

C4_Witness ==
    /\ last.op = "unswap_cpu"
    /\ last.before.swap_device = "cuda:0"
    /\ layer.bias # Absent
    /\ snap.bias.device = "cpu"
    /\ layer.bias.device = "cuda:0"

\* C5: swap_cpu() on a swapped layer and unswap_cpu() on a layer that is not
\* swapped change nothing, the recorded device included; so after one or more
\* swap_cpu() calls an unswap_cpu() puts the tensors on the device the first of
\* them recorded.
C5_Idempotent ==
    /\ (last.op = "swap_cpu" /\ last.before.swap_device # "None") => layer = last.before
    /\ (last.op = "unswap_cpu" /\ last.before.swap_device = "None") => layer = last.before
    /\ (layer # NoLayer /\ layer.swap_device # "None") =>
          layer.swap_device = snap.trellis.device
    /\ (last.op = "unswap_cpu" /\ last.before.swap_device # "None") =>
          \A k \in OwnedFields :
             layer[k] # Absent => layer[k].device = snap.trellis.device

C5_Witness ==
    /\ last.op = "swap_cpu"
    /\ last.before.swap_device = "cuda:0"
    /\ layer.swap_device = "cuda:0"
    /\ layer.trellis.device = "cpu"

Present(t) == t # Absent

ExactlyOne(a, b) == (a \/ b) /\ ~(a /\ b)

Emitted(ret, key, subkey) == \E item \in ret : item.key = key \o "." \o subkey

\* C6: a constructed layer always holds exactly one of su/suh, exactly one of
\* sv/svh, and the trellis; get_tensors emits the trellis, exactly one of
\* su|suh and exactly one of sv|svh.
C6_OneSignFormPerAxis ==
    layer # NoLayer =>
       /\ ExactlyOne(Present(layer.su), Present(layer.suh))
       /\ ExactlyOne(Present(layer.sv), Present(layer.svh))
       /\ Present(layer.trellis)
       /\ last.op = "get_tensors" =>
             /\ Emitted(last.ret, last.args, "trellis")
             /\ ExactlyOne(Emitted(last.ret, last.args, "su"),
                           Emitted(last.ret, last.args, "suh"))
             /\ ExactlyOne(Emitted(last.ret, last.args, "sv"),
                           Emitted(last.ret, last.args, "svh"))

\* get_tensors on a swapped layer that was built from packed su and unpacked svh
C6_Witness ==
    /\ last.op = "get_tensors"
    /\ layer.swap_device # "None"
    /\ layer.suh.data # UnpackedData(16)
    /\ layer.svh.data = UnpackedData(16)
    /\ Emitted(last.ret, last.args, "suh")
    /\ ~Emitted(last.ret, last.args, "su")

\* the word whose bit i is set exactly when sign 16*j + i is -1, as an int16
RECURSIVE RepackFrom(_, _, _)
RepackFrom(signs, j, i) ==
    IF i = 16 THEN 0
    ELSE (IF signs[16 * j + i + 1] = -1 THEN 1 ELSE 0) + 2 * RepackFrom(signs, j, i + 1)

Repack(signs, j) ==
    LET u == RepackFrom(signs, j, 0)
    IN  IF u >= 32768 THEN u - 65536 ELSE u

\* C7: unpack_bf turns n words into 16*n signs, each -1.0 or +1.0, where sign
\* 16*j + i is -1.0 exactly when bit i of word j is set: packing the signs
\* again, least significant bit first, gives back every word, so no two
\* bitfields unpack to the same vector.
C7_UnpackLossless ==
    expanded # Absent =>
       LET n == Len(bitfield.bf.data)
       IN  /\ expanded.shape = <<16 * n>>
           /\ DOMAIN expanded.data = 1..(16 * n)
           /\ \A k \in DOMAIN expanded.data : expanded.data[k] \in {-1, 1}
           /\ \A j \in 0..(n - 1) : Repack(expanded.data, j) = bitfield.bf.data[j + 1]

C7_Witness ==
    /\ expanded # Absent
    /\ bitfield.bf.data = <<5, -2>>
    /\ expanded.data[1] = -1 /\ expanded.data[2] = 1 /\ expanded.data[3] = -1
    /\ expanded.data[17] = 1 /\ expanded.data[32] = -1

\* C8: no step of a forward call changes the layer, whatever the other callers
\* are doing, and a call that has ended holds what the same call gives when it
\* runs alone on the layer.
C8_ForwardFrame ==
    [][/\ layer # NoLayer => layer' = layer
       /\ \A c \in Callers :
             calls'[c].pc \in {"returned", "raised"} =>
                calls'[c] = forward(layer', calls'[c].x, calls'[c].params,
                                    calls'[c].out_dtype).f]_vars

\* one call has returned down the reconstruct path while another, down the
\* fused path, is about to add the bias
C8_Witness ==
    /\ layer # NoLayer
    /\ layer.bias # Absent
    /\ calls[1].pc = "returned" /\ TookReconstruct(calls[1])
    /\ calls[2].pc = "bias" /\ TookFused(calls[2])

\* C10: a forward call that returns, returns a tensor whose element type is
\* the call's out_dtype if given, else the layer's out_dtype if set, else half.
C10_ReturnDtype ==
    (last.op = "forward" /\ last.ret.pc = "returned")
    => last.ret.y.dtype =
          (IF last.args.out_dtype # "None" THEN last.args.out_dtype
           ELSE IF layer.out_dtype # "None" THEN layer.out_dtype
           ELSE "half")

C10_Witness ==
    /\ last.op = "forward"
    /\ last.ret.pc = "returned"
    /\ last.args.out_dtype = "None"
    /\ layer.out_dtype = "float"
    /\ layer.bias # Absent /\ layer.bias.dtype = "half"
    /\ TookReconstruct(last.ret)
    /\ last.ret.y.dtype = "float"

\* C11: every constructed layer has K >= 1, K being the last dimension of the
\* trellis divided by 16: no trellis that construction accepts gives K = 0.
C11_KAtLeastOne ==
    layer # NoLayer => layer.K >= 1

\* the tensors construction stores as they were supplied
KeptFields == {"suh", "svh", "trellis", "mcg", "mul1"}

\* C12: after construction the bias is absent or in half precision, a bias
\* supplied in single precision having been downcast to half precision, and no
\* other supplied tensor is stored with another element type than it came with.
C12_BiasStoredHalf ==
    (last.op = "init" /\ layer # NoLayer)
    => /\ layer.bias = Absent \/ layer.bias.dtype = "half"
       /\ (last.args.bias # Absent /\ last.args.bias.dtype = "float")
             => layer.bias = ToHalf(last.args.bias)
       /\ \A k \in KeptFields :
             last.args[k] # Absent => layer[k].dtype = last.args[k].dtype

\* C13: the swap marker is set exactly when the most recent of the swap_cpu /
\* unswap_cpu calls on the layer was swap_cpu, whatever other calls came in
\* between; while it is set every owned tensor that is present is in host
\* memory; right after construction it is unset.
C13_MarkerTracksSwap ==
    layer # NoLayer =>
       /\ layer.swap_device # "None" <=> toggle = "swap_cpu"
       /\ layer.swap_device # "None" =>
             \A k \in OwnedFields : layer[k] # Absent => layer[k].device = "cpu"
       /\ last.op = "init" => layer.swap_device = "None"

\* a forward call made on a layer that swap_cpu took, bias included, from
\* accelerator memory to host memory
C13_Witness ==
    /\ layer # NoLayer
    /\ last.op = "forward"
    /\ toggle = "swap_cpu"
    /\ layer.swap_device = "cuda:0"
    /\ snap.swap_device = "None"
    /\ snap.bias # Absent /\ snap.bias.device = "cuda:0"
    /\ snap.trellis.device = "cuda:0"
    /\ layer.bias.device = "cpu"

\* s without its element at position i
RemoveAt(s, i) == SubSeq(s, 1, i - 1) \o SubSeq(s, i + 1, Len(s))

\* s is t with its elements in another order
IsPermutation(s, t) ==
    /\ Len(s) = Len(t)
    /\ \E p \in Permutations(DOMAIN t) : \A i \in DOMAIN s : s[i] = t[p[i]]

\* s is t with some elements left out
RECURSIVE IsSubsequence(_, _)
IsSubsequence(s, t) ==
    IF s = <<>> THEN TRUE
    ELSE IF t = <<>> THEN FALSE
    ELSE IF Head(s) = Head(t) THEN IsSubsequence(Tail(s), Tail(t))
    ELSE IsSubsequence(s, Tail(t))

\* the specs evaluated so far, in the order of their evaluation
Evaluated(m) == [i \in DOMAIN m.results |-> m.results[i].spec]

\* every evaluation that loads the logits file comes after one that saves it
ReadersAfterWriter(results) ==
    \A i \in DOMAIN results :
       results[i].logits = "loaded" =>
          \E j \in 1..(i - 1) : results[j].logits = "saved"

\* no logits file on the command line, and some loaded spec declares out_logits
ReferenceRun(m) ==
    /\ ~Given(m.args.logits_file)
    /\ \E i \in DOMAIN m.loaded : DeclaresLogits(m.loaded[i])

\* C14 as stated: in a run with no logits file on the command line and some
\* spec declaring out_logits, the evaluation order is a permutation of the
\* loaded specs with the spec that produces the reference logits first and the
\* others in their relative order, so every evaluation that reads the logits
\* file comes after the one that writes it.
C14_WriterFirstOrder ==
    (main # NoRun /\ main.pc \in {"loop", "done"} /\ ReferenceRun(main))
    => /\ IsPermutation(main.models_spec, main.loaded)
       /\ \E idx \in DOMAIN main.loaded :
             /\ DeclaresLogits(main.loaded[idx])
             /\ main.models_spec = <<main.loaded[idx]>> \o RemoveAt(main.loaded, idx)
       /\ Evaluated(main) = SubSeq(main.models_spec, 1, Len(main.results))
       /\ ReadersAfterWriter(main.results)

\* C14 as amended: in such a run the list main builds before it applies the
\* label mask is a permutation of the loaded specs with the last spec that
\* declares out_logits first and the others in their relative order, and the
\* logits file lies in that spec's directory; the evaluation order is that list
\* when no mask is given and otherwise that list with some specs left out; so
\* whenever the mask keeps the spec in front, every model that reads the logits
\* file is evaluated after the model that writes it.
C14_WriterFirstBeforeMask ==
    (main # NoRun /\ main.pc \in {"mask", "loop", "done"} /\ ReferenceRun(main))
    => LET idx == CHOOSE i \in DOMAIN main.loaded :
                     /\ DeclaresLogits(main.loaded[i])
                     /\ \A j \in (i + 1)..Len(main.loaded) : ~DeclaresLogits(main.loaded[j])
           order == main.models_spec
       IN  /\ IsPermutation(main.ordered, main.loaded)
           /\ main.ordered = <<main.loaded[idx]>> \o RemoveAt(main.loaded, idx)
           /\ main.logits_file =
                 main.loaded[idx].out_logits \o "/" \o DataHash \o ".safetensors"
           /\ main.pc \in {"loop", "done"} =>
                 /\ (main.args.mask = <<>> \/ main.args.mask = << <<>> >>)
                       => order = main.ordered
                 /\ IsSubsequence(order, main.ordered)
                 /\ Evaluated(main) = SubSeq(order, 1, Len(main.results))
                 /\ (order # <<>> /\ order[1] = main.ordered[1]) =>
                       /\ main.results # <<>> => main.results[1].logits = "saved"
                       /\ ReadersAfterWriter(main.results)

\* a finished run of three models under a mask that keeps them all: the spec
\* that declares out_logits was loaded second, was evaluated first and saved
\* the logits, and the two others, in their order, loaded them
C14_Witness ==
    /\ main # NoRun
    /\ main.pc = "done"
    /\ main.args.logits_file = "None"
    /\ main.args.mask = << <<"B">> >>
    /\ main.loaded = << [label |-> <<"a", "b">>, out_logits |-> "missing"],
                        [label |-> <<"B">>, out_logits |-> "ref_B"],
                        [label |-> <<"B">>, out_logits |-> "missing"] >>
    /\ Len(main.results) = 3
    /\ main.results[1].label = <<"B">> /\ main.results[1].logits = "saved"
    /\ main.results[2].label = <<"a", "b">> /\ main.results[2].logits = "loaded"
    /\ main.results[3].label = <<"B">> /\ main.results[3].logits = "loaded"

====
